---- MODULE Spec2Model ----
(***************************************************************************)
(* Verification model of the yomi-chatbot conversation agent:              *)
(*   - SmartMemoryManager / DatabaseChatMessageHistory / ChatDatabase      *)
(*     (write-through session history with background summarization),      *)
(*   - StreamingHandler (event bus and tool-confirmation coordinator),     *)
(*   - the per-turn workflow of ConversationAgent / AgentNodes,            *)
(*   - FAISSDocumentDatabase.search_documents / RAGSystem (retrieval).     *)
(*                                                                         *)
(* Text is abstracted to a record [id, len]: id identifies the text, len   *)
(* is its number of characters.  Confidence is in hundredths (0.7 = 70).   *)
(* Blocks of code that run under StreamingHandler._lock are one step each. *)
(* The only sqlite error modelled is the one create_session reports to     *)
(* initialize_session_node.                                                *)
(***************************************************************************)
EXTENDS Integers, Sequences, FiniteSets, Bags, TLC

\* ---------------------------------------------------------------- bounds
MaxAppends == 4
MaxInits == 2
MaxRows == 3
MaxClock == 1
MaxTurns == 2
MaxTurnResponses == 1
MaxWaits == 2
MaxResponses == 2
MaxHits == 2
MaxSearches == 2
MaxDocs == 2
MaxBusCalls == 5
MaxTasks == 2
MaxInvocations == 2

Sessions == {"s1", "s2"}
Threads == {1, 2}
ReplyLens == {1600}

\* ------------------------------------------------------ program constants
max_tokens == 3200
ConfidenceFloor == 70
KeepRecent == 2
FtsScore == 80
KeywordScore == 60
retrival_document_detection_threshold == 70

SemanticScores == {50, 80, 90}

VARIABLES
    chat_sessions,  \* rows of table chat_sessions (session ids)
    chat_messages,  \* rows of table chat_messages, per session, in insertion order
    session_histories,  \* SmartMemoryManager.session_histories: session -> history object
    bg,  \* bag of the background check_and_summarize threads in flight
    nAppends,  \* number of appends made through the memory manager
    appended,  \* per session: the messages appended through the manager, in order
    passes,  \* per session: number of completed summarization passes
    session_events,  \* per StreamingHandler: _session_events (session -> queue)
    current_session,  \* per StreamingHandler: _current_session
    tool_confirmations,  \* per StreamingHandler: _tool_confirmations (session -> response)
    confirmation_events,  \* per StreamingHandler: _confirmation_events (session -> Event)
    evSet,  \* the threading.Event objects whose flag is set
    nEvents,  \* number of threading.Event objects created
    responses,  \* the confirmation responses submitted so far
    turns,  \* per worker thread: the turn (AgentState and position) it runs
    nTurns,  \* number of turns started
    inits,  \* number of initialize_session calls made by clients of the manager
    created_at,  \* per session: column created_at of the rows of chat_messages
    db_clock,  \* CURRENT_TIMESTAMP of the store, in seconds
    history_read,  \* the last result of ChatDatabase.get_session_history
    search,  \* the document search in progress and the list it returned
    documents,  \* rows of table documents, in insertion order
    index,  \* FAISSDocumentDatabase.index: the vectors, by ordinal
    document_ids,  \* FAISSDocumentDatabase.document_ids
    bus,  \* the calls made on the event bus directly and what they returned
    sup  \* the SupervisorAgent instance and the invocations running on it

memvars == <<chat_sessions, chat_messages, session_histories, bg, nAppends, appended, passes>>

coordvars == <<session_events, current_session, tool_confirmations, confirmation_events,
               evSet, nEvents, responses>>

turnvars == <<turns, nTurns>>

\* the variables the memory appends, the coordinator and the turns leave alone
\* the document store
docvars == <<documents, index, document_ids>>

\* the event bus called directly, and the supervisor
extvars == <<bus, sup>>

auxvars == <<inits, created_at, db_clock, history_read, search, docvars, extvars>>

vars == <<chat_sessions, chat_messages, session_histories, bg, nAppends, appended, passes,
          session_events, current_session, tool_confirmations, confirmation_events,
          evSet, nEvents, responses, turns, nTurns, inits, created_at, db_clock, history_read,
          search, documents, index, document_ids, bus, sup>>

\* ------------------------------------------------------------------ text
Text(i, n) == [id |-> i, len |-> n]
SummaryText == Text(0, 100)

\* ------------------------------------------------------- sequence helpers
RECURSIVE SumLen(_)
SumLen(rows) == IF rows = <<>> THEN 0 ELSE Head(rows).content.len + SumLen(Tail(rows))

\* python: xs[-2:]
Last2(xs) == IF Len(xs) <= KeepRecent THEN xs ELSE SubSeq(xs, Len(xs) - KeepRecent + 1, Len(xs))

\* ------------------------------------------------------------ ChatDatabase
Row(type, content, tool_name) == [type |-> type, content |-> content, tool_name |-> tool_name]

\* ChatDatabase.add_message: INSERT INTO chat_messages
DbAddMessage(msgs, s, type, content, tool_name) ==
    [msgs EXCEPT ![s] = Append(@, Row(type, content, tool_name))]

\* ChatDatabase.get_session_text_length
get_session_text_length(s) == SumLen(chat_messages[s])

\* ChatDatabase.get_session_message_count
get_session_message_count(s) == Len(chat_messages[s])

\* ------------------------------- ChatDatabase with the column created_at

\* injective maps of 1..n onto 1..n
Perms(n) == {f \in [1..n -> 1..n] : \A i, j \in 1..n : f[i] = f[j] => i = j}

\* ORDER BY created_at ASC: the orders in which the rows of s can be
\* returned; rows with equal created_at have no order among them
OrderByCreatedAt(s) ==
    {f \in Perms(Len(chat_messages[s])) :
        \A i, j \in 1..Len(chat_messages[s]) :
            i < j => created_at[s][f[i]] <= created_at[s][f[j]]}

\* the dict get_session_history builds of a row
Entry(row) == [type |-> row.type, content |-> row.content]

\* ChatDatabase.add_message called on the store
ChatDbAddMessage ==
    /\ Len(chat_messages["s1"]) + Len(chat_messages["s2"]) < MaxRows
    /\ \E s \in Sessions, role \in ({"human", "ai"}), n \in ({5}) :
          /\ chat_messages' =
                 DbAddMessage(chat_messages, s, role, Text(Len(chat_messages[s]) + 1, n), "NONE")
          /\ created_at' = [created_at EXCEPT ![s] = Append(@, db_clock)]
          /\ history_read' = IF history_read.s = s
                             THEN [history_read EXCEPT !.fresh = FALSE] ELSE history_read
    /\ UNCHANGED <<chat_sessions, session_histories, bg, nAppends, appended, passes>>
    /\ UNCHANGED <<coordvars, turnvars, extvars, inits, db_clock, search, docvars>>

\* ChatDatabase.get_session_history(s)
ChatDbGetSessionHistory ==
    /\ \E s \in Sessions : \E f \in OrderByCreatedAt(s) :
          history_read' =
              [s |-> s, fresh |-> TRUE,
               entries |-> [i \in 1..Len(chat_messages[s]) |-> Entry(chat_messages[s][f[i]])]]
    /\ UNCHANGED <<memvars, coordvars, turnvars, extvars, inits, created_at, db_clock, search,
                   docvars>>

NextStore ==
    \/ ChatDbAddMessage
    \/ (/\ \E c \in 0..MaxClock : c # db_clock /\ db_clock' = c
        /\ UNCHANGED <<memvars, coordvars, turnvars, extvars, inits, created_at, history_read, search,
                       docvars>>)
    \/ ChatDbGetSessionHistory

\* ---------------------------------------------- DatabaseChatMessageHistory
Msg(cls, content) == [cls |-> cls, content |-> content]

\* _get_message_type
MessageType(m) ==
    CASE m.cls = "HumanMessage" -> "human"
      [] m.cls = "AIMessage" -> "ai"
      [] m.cls = "SystemMessage" -> "system"
      [] m.cls = "ToolMessage" -> "tool"
      [] OTHER -> "unknown"

\* _load_history: rows of a known type become messages, other rows are skipped
RECURSIVE LoadHistory(_)
LoadHistory(rows) ==
    IF rows = <<>> THEN <<>>
    ELSE LET r == Head(rows)
             rest == LoadHistory(Tail(rows))
         IN CASE r.type = "human" -> <<Msg("HumanMessage", r.content)>> \o rest
              [] r.type = "ai" -> <<Msg("AIMessage", r.content)>> \o rest
              [] r.type = "system" -> <<Msg("SystemMessage", r.content)>> \o rest
              [] r.type = "tool" -> <<Msg("ToolMessage", r.content)>> \o rest
              [] OTHER -> rest

NoHistory == [present |-> FALSE, loaded |-> FALSE, messages |-> <<>>]

\* SmartMemoryManager.get_session_history followed by _ensure_loaded:
\* the history object of s, created and loaded from the store when needed
EnsuredHistory(s) ==
    LET h == session_histories[s]
    IN IF h.present /\ h.loaded THEN h
       ELSE [present |-> TRUE, loaded |-> TRUE, messages |-> LoadHistory(chat_messages[s])]

\* the in-memory view of s
View(s) == session_histories[s].messages

\* ------------------------------------------------------ SmartMemoryManager

\* bag helpers: threads in the same local state are interchangeable
One(th) == SetToBag({th})
Running == BagToSet(bg)
Exit(th) == bg (-) One(th)

\* DatabaseChatMessageHistory.add_message: append to the in-memory list, then
\* write one row through to the store
HistoryAddMessage(hists, s, m) ==
    [hists EXCEPT ![s] = [EnsuredHistory(s) EXCEPT !.messages = Append(@, m)]]

\* rows written by one add_user_message / add_ai_message
RowsOfAdd(msgs, s, m) == DbAddMessage(msgs, s, MessageType(m), m.content, "NONE")

\* rows written by one add_tool_message: history.add_message writes the row,
\* then self.db.add_message writes it again with tool_name and tool_args
RowsOfAddTool(msgs, s, m, tool_name) ==
    DbAddMessage(RowsOfAdd(msgs, s, m), s, "tool", m.content, tool_name)

\* one append through the manager: get_session_history (creating the session
\* row when missing), add_message, then _async_check_and_summarize starts a
\* daemon thread
ManagerAppend(s, m, rows) ==
    /\ chat_sessions' = chat_sessions \cup {s}
    /\ session_histories' = HistoryAddMessage(session_histories, s, m)
    /\ chat_messages' = rows
    /\ bg' = bg (+) One(([s |-> s, pc |-> "check", recent |-> <<>>]))
    /\ nAppends' = nAppends + 1
    /\ appended' = [appended EXCEPT ![s] = Append(@, m)]
    /\ passes' = passes

add_user_message(s, n) ==
    LET m == Msg("HumanMessage", Text(Len(appended[s]) + 1, n))
    IN ManagerAppend(s, m, RowsOfAdd(chat_messages, s, m))

add_ai_message(s, n) ==
    LET m == Msg("AIMessage", Text(Len(appended[s]) + 1, n))
    IN ManagerAppend(s, m, RowsOfAdd(chat_messages, s, m))

add_tool_message(s, n, tool_name) ==
    LET m == Msg("ToolMessage", Text(Len(appended[s]) + 1, n))
    IN ManagerAppend(s, m, RowsOfAddTool(chat_messages, s, m, tool_name))

\* a create_session whose REPLACE would take the rows of the session with it
RowsClearedByReplace(msgs, s) == [msgs EXCEPT ![s] = <<>>]

\* ChatDatabase.create_session: INSERT OR REPLACE INTO chat_sessions; no
\* statement touches chat_messages
RowsAfterCreateSession(msgs, s) == msgs

\* SmartMemoryManager.get_session_history: the history object of s, created
\* (not yet loaded) when the manager has none
GetSessionHistory(s) ==
    IF session_histories[s].present THEN session_histories[s]
    ELSE [present |-> TRUE, loaded |-> FALSE, messages |-> <<>>]

\* SmartMemoryManager.initialize_session: create_session, then
\* get_session_history
initialize_session(s) ==
    /\ chat_sessions' = chat_sessions \cup {s}
    /\ chat_messages' = RowsAfterCreateSession(chat_messages, s)
    /\ session_histories' = [session_histories EXCEPT ![s] = GetSessionHistory(s)]
    /\ inits' = inits + 1
    /\ UNCHANGED <<bg, nAppends, appended, passes, created_at, db_clock, history_read,
                   search, docvars, extvars>>

\* check_and_summarize, line 154: text_length > self.max_tokens
NeedsSummary(s) == get_session_text_length(s) > max_tokens

\* check_and_summarize and the head of _summarize_history (lines 151-172):
\* the thread ends when the persisted text is within max_tokens or the view
\* holds at most 2 messages; otherwise it keeps messages[-2:] and invokes the
\* summary chain
CheckAndSummarize(th) ==
    /\ th \in Running /\ th.pc = "check"
    /\ bg' = IF NeedsSummary(th.s) /\ Len(View(th.s)) > KeepRecent
             THEN ((bg (-) One(th)) (+) One(([th EXCEPT !.pc = "invoke", !.recent = Last2(View(th.s))])))
             ELSE Exit(th)
    /\ UNCHANGED <<chat_sessions, chat_messages, session_histories, nAppends, appended, passes>>
    /\ UNCHANGED <<coordvars, turnvars>>
    /\ UNCHANGED auxvars

\* lines 193-196: the list the summarization installs
Installed(th) == <<Msg("SystemMessage", SummaryText)>> \o th.recent

\* a summarization that would write its result over the rows of the session
RowsRewrittenBySummary(msgs, th) ==
    [msgs EXCEPT ![th.s] =
        [i \in 1..Len(Installed(th)) |->
            Row(MessageType(Installed(th)[i]), Installed(th)[i].content, "NONE")]]

\* the rows of the store after a summarization: _summarize_history makes no
\* call to self.db, only history._messages is assigned
RowsAfterSummary(msgs, th) == msgs

\* lines 188-198: the model call returns; history._messages is replaced
SummarizeInstall(th) ==
    /\ th \in Running /\ th.pc = "invoke"
    /\ session_histories' = [session_histories EXCEPT ![th.s].messages = Installed(th)]
    /\ chat_messages' = RowsAfterSummary(chat_messages, th)
    /\ bg' = Exit(th)
    /\ passes' = [passes EXCEPT ![th.s] = @ + 1]
    /\ UNCHANGED <<chat_sessions, nAppends, appended>>
    /\ UNCHANGED <<coordvars, turnvars>>
    /\ UNCHANGED auxvars

\* lines 200-201: the model call raises; the view is left as it is
SummarizeFail(th) ==
    /\ th \in Running /\ th.pc = "invoke"
    /\ bg' = Exit(th)
    /\ UNCHANGED <<chat_sessions, chat_messages, session_histories, nAppends, appended, passes>>
    /\ UNCHANGED <<coordvars, turnvars>>
    /\ UNCHANGED auxvars

\* ---------------------------------------------------------- StreamingHandler
Handlers == {"api", "node"}
\* streaming_api.py line 66: the instance the HTTP endpoints use
EndpointHandler == "api"
\* nodes.py line 27: the instance the workflow nodes use, get_streaming_handler()
NodesHandler == "node"

NoSession == "None"
NoEvent == 0
\* the value None of a confirmation; argument maps are "EMPTY" for {}, "SUGG"
\* for the detected map, "EDIT" for a map edited by the user, "NONE" for None;
\* sent_args notes the tool_args argument the response was submitted with
NoConf == [confirmed |-> FALSE, tool_args |-> "NONE", timestamp |-> 0, sent_args |-> "NONE"]
NoQueue == [present |-> FALSE, q |-> <<>>]

\* python: tool_args or {}
OrEmptyDict(a) == IF a = "NONE" \/ a = "EMPTY" THEN "EMPTY" ELSE a

\* add_event: the queues after the call; without a target session, or for a
\* session that has no queue, the event is dropped
AddEvent(se, h, event_type, session_id) ==
    LET target == IF session_id # NoSession THEN session_id ELSE current_session[h]
    IN IF target = NoSession THEN se
       ELSE IF se[h][target].present
            THEN [se EXCEPT ![h][target].q = Append(@, event_type)]
            ELSE se

\* set_tool_confirmation (under _lock): store the response, create the Event
\* of the session when there is none, set it
set_tool_confirmation(h, s, confirmed, tool_args) ==
    LET fresh == confirmation_events[h][s] = NoEvent
        e == IF fresh THEN nEvents + 1 ELSE confirmation_events[h][s]
    IN /\ tool_confirmations' =
              [tool_confirmations EXCEPT ![h][s] =
                  [confirmed |-> confirmed, tool_args |-> OrEmptyDict(tool_args),
                   timestamp |-> Len(responses) + 1, sent_args |-> tool_args]]
       /\ confirmation_events' = [confirmation_events EXCEPT ![h][s] = e]
       /\ nEvents' = IF fresh THEN nEvents + 1 ELSE nEvents
       /\ evSet' = evSet \cup {e}
       /\ responses' = Append(responses, ([h |-> h, s |-> s, returned |-> 0]))
       /\ UNCHANGED <<session_events, current_session>>

\* the bodies a ToolConfirmationRequest can carry
ResponseKinds ==
    {[confirmed |-> TRUE, tool_args |-> "NONE"],
     [confirmed |-> TRUE, tool_args |-> "EDIT"],
     [confirmed |-> FALSE, tool_args |-> "NONE"]}

\* ------------------------------------------------------------ the turn state

\* ToolMatcher.get_tool_schema returns a schema (not None)
HasSchema(tool_name) == tool_name \in ({"add", "multiply", "human_assistance"})

\* ConversationAgent.chat, initial_state; pc is the node the turn is at,
\* emitted the events the turn has passed to add_event, path the nodes run,
\* requested_at the number of responses submitted before the turn emitted its
\* confirmation request (kept until the request is settled),
\* answered whether a response for the session was submitted between the
\* start of the turn and the return of its Event.wait, blocked_resp the response
\* the endpoint accepted while the turn was blocked in Event.wait
IdleTurn ==
    [pc |-> "idle", session_id |-> NoSession, user_input |-> 0,
     needs_tool |-> FALSE,
     tool_detection_result |-> [needs_tool |-> FALSE, tool_name |-> "None",
                                confidence |-> 0, suggested_args |-> "EMPTY"],
     tool_execution_result |-> "None", rag_search_result |-> "None",
     rag_failure |-> "none", store_empty |-> FALSE, llm_output |-> "None",
     final_response |-> "", error_message |-> "None",
     ev |-> NoEvent, wait_outcome |-> "none", confirmation_result |-> NoConf,
     final_args |-> "NONE", tool_runs |-> 0, blocked_resp |-> 0, answered |-> FALSE,
     requested_at |-> 0,
     raised |-> FALSE,
     emitted |-> <<>>, path |-> <<>>]

Visit(tr, node) == [tr EXCEPT !.path = Append(@, node)]
Emit(tr, e) == [tr EXCEPT !.emitted = Append(@, e)]
SetTurn(t, tr) == turns' = [turns EXCEPT ![t] = tr]
At(t, pc) == turns[t].pc = pc

\* an exception leaves the workflow: chat catches it and returns an apology
Raised(tr) ==
    [tr EXCEPT !.pc = "END", !.raised = TRUE, !.final_response = "workflow_apology"]

\* ConversationAgent._should_use_tool: the key the conditional edge is looked
\* up with
ShouldUseTool(tr) ==
    IF tr.error_message # "None" THEN "error_handling"
    ELSE IF tr.needs_tool THEN "use_tool" ELSE "rag_search"

\* following a conditional edge: a key with no entry raises inside
\* workflow.invoke, which chat catches
FollowEdge(tr, key, edges) ==
    IF key \in DOMAIN edges THEN [tr EXCEPT !.pc = edges[key]] ELSE Raised(tr)

\* a route that takes every tool_execution to finalize_response
ToolExecutionAlwaysFinalize(tr) == "finalize_response"

\* ConversationAgent._tool_execution_result with the edges of tool_execution
ToolExecutionResultRoute(tr) ==
    IF tr.error_message # "None" THEN "rag_search"
    ELSE IF tr.tool_execution_result = "success" THEN "finalize_response"
    ELSE "rag_search"

\* a floor test that also turns away a confidence equal to the floor
BelowFloorAtFloor(confidence) == confidence <= ConfidenceFloor

\* nodes.py line 97: confidence < 0.7
BelowFloor(confidence) == confidence < ConfidenceFloor

\* nodes.py line 127: confirmation_result.get("tool_args", suggested_args); the
\* stored response always has the key
FinalArgs(confirmation_result, suggested_args) == confirmation_result.tool_args

\* ------------------------------------------------------- the workflow nodes
\* ConversationAgent.chat: a worker thread starts a turn
StartTurn(t) ==
    /\ turns[t].pc \in {"idle", "END"}
    /\ nTurns < MaxTurns
    /\ \E s \in Sessions, n \in ReplyLens :
          SetTurn(t, [IdleTurn EXCEPT !.pc = "initialize_session", !.session_id = s,
                                      !.user_input = n])
    /\ nTurns' = nTurns + 1
    /\ UNCHANGED <<memvars, coordvars>>
    /\ UNCHANGED auxvars

\* initialize_session_node: create_session, get_session_history, and
\* history.messages loads the persisted log; when create_session returns False
\* (it caught an sqlite3.Error) the node records error_message and returns, and
\* the edge to save_user_input is followed all the same
initialize_session_node(t) ==
    /\ At(t, "initialize_session")
    /\ LET tr == Visit(turns[t], "initialize_session")
       IN \E success \in BOOLEAN :
             IF success
             THEN /\ chat_sessions' = chat_sessions \cup {tr.session_id}
                  /\ session_histories' =
                         [session_histories EXCEPT
                             ![tr.session_id] = EnsuredHistory(tr.session_id)]
                  /\ SetTurn(t, [tr EXCEPT !.pc = "save_user_input"])
             ELSE /\ SetTurn(t, [tr EXCEPT !.pc = "save_user_input",
                                           !.error_message = "init"])
                  /\ UNCHANGED <<chat_sessions, session_histories>>
    /\ UNCHANGED <<chat_messages, bg, nAppends, appended, passes, coordvars, nTurns>>
    /\ UNCHANGED auxvars

\* save_user_input_node
save_user_input_node(t) ==
    /\ At(t, "save_user_input")
    /\ LET tr == turns[t]
       IN /\ add_user_message(tr.session_id, tr.user_input)
          /\ SetTurn(t, [Visit(tr, "save_user_input") EXCEPT !.pc = "tool_detection"])
    /\ UNCHANGED <<coordvars, nTurns>>
    /\ UNCHANGED auxvars

\* tool_detection_node and the conditional edge after it
tool_detection_node(t) ==
    /\ At(t, "tool_detection")
    \* the detections the model call can return: no tool; the tool add above,
    \* at and below the confidence floor; a tool that is not registered
    /\ \E d \in {[needs_tool |-> FALSE, tool_name |-> "None",
                   confidence |-> 10, suggested_args |-> "EMPTY"],
                  [needs_tool |-> TRUE, tool_name |-> "add",
                   confidence |-> 90, suggested_args |-> "SUGG"],
                  [needs_tool |-> TRUE, tool_name |-> "add",
                   confidence |-> 70, suggested_args |-> "SUGG"],
                  [needs_tool |-> TRUE, tool_name |-> "add",
                   confidence |-> 69, suggested_args |-> "SUGG"],
                  [needs_tool |-> TRUE, tool_name |-> "nosuch",
                   confidence |-> 90, suggested_args |-> "SUGG"]} :
          LET tr0 == [Visit(turns[t], "tool_detection") EXCEPT
                         !.tool_detection_result = d, !.needs_tool = d.needs_tool]
              tr1 == IF d.needs_tool THEN Emit(tr0, "tool_detected") ELSE tr0
          IN /\ SetTurn(t, FollowEdge(tr1, ShouldUseTool(tr1),
                                      [use_tool |-> "tool_execution",
                                       rag_search |-> "rag_search"]))
             /\ session_events' =
                    IF d.needs_tool
                    THEN AddEvent(session_events, NodesHandler, "tool_detected", NoSession)
                    ELSE session_events
    /\ UNCHANGED <<memvars, current_session, tool_confirmations, confirmation_events,
                   evSet, nEvents, responses, nTurns>>
    /\ UNCHANGED auxvars

\* tool_execution_node, lines 91-116: the confidence and schema checks, then
\* the tool_confirmation_needed event
tool_execution_node(t) ==
    /\ At(t, "tool_execution")
    /\ LET tr == Visit(turns[t], "tool_execution")
           d == tr.tool_detection_result
           skip == [tr EXCEPT !.needs_tool = FALSE]
       IN IF BelowFloor(d.confidence) \/ ~HasSchema(d.tool_name)
          THEN /\ SetTurn(t, [skip EXCEPT !.pc = ToolExecutionResultRoute(skip)])
               /\ UNCHANGED session_events
          ELSE /\ SetTurn(t, [Emit(tr, "tool_confirmation_needed") EXCEPT
                                 !.pc = "wait_check", !.requested_at = Len(responses)])
               /\ session_events' = AddEvent(session_events, NodesHandler,
                                             "tool_confirmation_needed", NoSession)
    /\ UNCHANGED <<memvars, current_session, tool_confirmations, confirmation_events,
                   evSet, nEvents, responses, nTurns>>
    /\ UNCHANGED auxvars

\* wait_for_tool_confirmation, line 160: session_id not in _confirmation_events
WaitCheck(t) ==
    /\ At(t, "wait_check")
    /\ SetTurn(t, [turns[t] EXCEPT !.pc =
           IF confirmation_events[NodesHandler][turns[t].session_id] = NoEvent
           THEN "wait_create" ELSE "wait_lookup"])
    /\ UNCHANGED <<memvars, coordvars, nTurns>>
    /\ UNCHANGED auxvars

\* line 161: _confirmation_events[session_id] = threading.Event()
WaitCreate(t) ==
    /\ At(t, "wait_create")
    /\ confirmation_events' =
           [confirmation_events EXCEPT ![NodesHandler][turns[t].session_id] = nEvents + 1]
    /\ nEvents' = nEvents + 1
    /\ SetTurn(t, [turns[t] EXCEPT !.pc = "wait_lookup"])
    /\ UNCHANGED <<memvars, session_events, current_session, tool_confirmations, evSet,
                   responses, nTurns>>
    /\ UNCHANGED auxvars

\* line 164: _confirmation_events[session_id] is looked up (KeyError when the
\* entry is gone) and the thread starts to wait on that Event
WaitLookup(t) ==
    /\ At(t, "wait_lookup")
    /\ LET e == confirmation_events[NodesHandler][turns[t].session_id]
       IN SetTurn(t, IF e = NoEvent THEN Raised(turns[t])
                     ELSE [turns[t] EXCEPT !.pc = "waiting", !.ev = e])
    /\ UNCHANGED <<memvars, coordvars, nTurns>>
    /\ UNCHANGED auxvars

\* Event.wait returns True: the flag of the Event is set
WaitWake(t) ==
    /\ At(t, "waiting")
    /\ turns[t].ev \in evSet
    /\ SetTurn(t, [turns[t] EXCEPT !.pc = "woken"])
    /\ UNCHANGED <<memvars, coordvars, nTurns>>
    /\ UNCHANGED auxvars

\* Event.wait returns False: the timeout has passed with the flag not set
WaitTimeout(t) ==
    /\ At(t, "waiting")
    /\ turns[t].ev \notin evSet
    /\ SetTurn(t, [turns[t] EXCEPT !.pc = "timedout"])
    /\ UNCHANGED <<memvars, coordvars, nTurns>>
    /\ UNCHANGED auxvars

\* lines 165-171 (under _lock): take the stored response, delete it and the
\* Event of the session; without a stored response fall through to return None
WaitTake(t) ==
    /\ At(t, "woken")
    /\ LET tr == turns[t]
           s == tr.session_id
           result == tool_confirmations[NodesHandler][s]
       IN IF result # NoConf
          THEN /\ tool_confirmations' = [tool_confirmations EXCEPT ![NodesHandler][s] = NoConf]
               /\ IF confirmation_events[NodesHandler][s] = NoEvent
                  THEN /\ SetTurn(t, Raised(tr))
                       /\ UNCHANGED <<confirmation_events, responses>>
                  ELSE /\ confirmation_events' =
                              [confirmation_events EXCEPT ![NodesHandler][s] = NoEvent]
                       /\ responses' = [responses EXCEPT ![result.timestamp].returned = @ + 1]
                       /\ SetTurn(t, [tr EXCEPT !.pc = "after_wait", !.wait_outcome = "result",
                                                !.confirmation_result = result])
          ELSE /\ SetTurn(t, [tr EXCEPT !.pc = "after_wait", !.wait_outcome = "empty",
                                        !.confirmation_result = NoConf])
               /\ UNCHANGED <<tool_confirmations, confirmation_events, responses>>
    /\ UNCHANGED <<memvars, session_events, current_session, evSet, nEvents, nTurns>>
    /\ UNCHANGED auxvars

\* a timeout branch that leaves the handle map as it is
KeepOnTimeout(ce, s) == ce

\* the handle map after the clean-up of the timeout branch, lines 174-176
ReleaseOnTimeout(ce, s) == [ce EXCEPT ![NodesHandler][s] = NoEvent]

\* lines 172-178 (under _lock): delete the Event of the session, return None
WaitRelease(t) ==
    /\ At(t, "timedout")
    /\ confirmation_events' = ReleaseOnTimeout(confirmation_events, turns[t].session_id)
    /\ SetTurn(t, [turns[t] EXCEPT !.pc = "after_wait", !.wait_outcome = "timeout",
                                   !.confirmation_result = NoConf])
    /\ UNCHANGED <<memvars, session_events, current_session, tool_confirmations, evSet,
                   nEvents, responses, nTurns>>
    /\ UNCHANGED auxvars

\* tool_execution_node, lines 125-131 and 168-182: the branch on the result of
\* the wait
AfterWait(t) ==
    /\ At(t, "after_wait")
    /\ LET tr == turns[t]
           r == tr.confirmation_result
           declined == [Emit(tr, IF r = NoConf THEN "tool_confirmation_timeout"
                                 ELSE "tool_confirmation_cancelled")
                        EXCEPT !.needs_tool = FALSE, !.requested_at = 0]
       IN IF r # NoConf /\ r.confirmed
          THEN /\ SetTurn(t, [Emit(tr, "tool_execution_start") EXCEPT
                                 !.pc = "execute_tool",
                                 !.final_args =
                                     FinalArgs(r, tr.tool_detection_result.suggested_args)])
               /\ session_events' = AddEvent(session_events, NodesHandler,
                                             "tool_execution_start", NoSession)
          ELSE /\ SetTurn(t, [declined EXCEPT !.pc = ToolExecutionResultRoute(declined)])
               /\ session_events' =
                      AddEvent(session_events, NodesHandler,
                               IF r = NoConf THEN "tool_confirmation_timeout"
                               ELSE "tool_confirmation_cancelled", NoSession)
    /\ UNCHANGED <<memvars, current_session, tool_confirmations, confirmation_events,
                   evSet, nEvents, responses, nTurns>>
    /\ UNCHANGED auxvars

\* tool_execution_node, lines 134-167: execute_tool, the completion event, the
\* tool message on success, and the conditional edge after the node
ExecuteTool(t) ==
    /\ At(t, "execute_tool")
    /\ \E success \in BOOLEAN :
          LET tr == [Emit(turns[t], "tool_execution_complete") EXCEPT
                        !.tool_runs = @ + 1, !.requested_at = 0]
              ok == [tr EXCEPT !.tool_execution_result = "success", !.final_response = "tool"]
              ko == [tr EXCEPT !.tool_execution_result = "failed",
                               !.error_message = "tool", !.needs_tool = FALSE]
          IN IF success
             THEN /\ \E n \in ReplyLens :
                        add_tool_message(tr.session_id, n, tr.tool_detection_result.tool_name)
                  /\ SetTurn(t, [ok EXCEPT !.pc = ToolExecutionResultRoute(ok)])
             ELSE /\ SetTurn(t, [ko EXCEPT !.pc = ToolExecutionResultRoute(ko)])
                  /\ UNCHANGED memvars
    /\ session_events' = AddEvent(session_events, NodesHandler,
                                  "tool_execution_complete", NoSession)
    /\ UNCHANGED <<current_session, tool_confirmations, confirmation_events,
                   evSet, nEvents, responses, nTurns>>
    /\ UNCHANGED auxvars

\* a retrieval that answers an index failure with the text tiers
RagDocumentsTextFallback(embedding, index_state, semantic, fts, keyword) ==
    IF embedding = "ok" /\ index_state = "ok" THEN semantic
    ELSE (IF fts THEN <<FtsScore>> ELSE <<>>) \o (IF keyword THEN <<KeywordScore>> ELSE <<>>)

\* RAGSystem.search_relevant_documents as rag_search_node calls it: the scores
\* of the documents it returns.  With an embedding the search is semantic
\* only, and semantic_search answers an index failure with no hit; without
\* one (embed_query failed) the full-text and keyword tiers are searched
RagDocuments(embedding, index_state, semantic, fts, keyword) ==
    IF embedding = "ok"
    THEN (IF index_state = "ok" THEN semantic ELSE <<>>)
    ELSE (IF fts THEN <<FtsScore>> ELSE <<>>) \o (IF keyword THEN <<KeywordScore>> ELSE <<>>)

\* nodes.py line 279: the documents above the threshold
AboveThreshold(scores) ==
    SelectSeq(scores, LAMBDA sc : sc > retrival_document_detection_threshold)

\* rag_search_node: the store holds a semantic match of some score or none, a
\* full-text match or none, a keyword match or none; the retrieval meets one
\* of the failures or none; the except clause records the error and an empty
\* result
rag_search_node(t) ==
    /\ At(t, "rag_search")
    /\ \E failure \in {"none", "embedding", "index", "raised"},
          semantic \in {<<>>} \cup {<<sc>> : sc \in {x \in SemanticScores : x # FtsScore}},
          fts \in BOOLEAN, keyword \in BOOLEAN :
          LET embedding == IF failure = "embedding" THEN "failed" ELSE "ok"
              index_state == IF failure = "index" THEN "failed" ELSE "ok"
              tr == [Visit(turns[t], "rag_search") EXCEPT
                        !.rag_failure = failure,
                        !.store_empty = (semantic = <<>> /\ ~fts /\ ~keyword)]
              documents_found ==
                  AboveThreshold(RagDocuments(embedding, index_state, semantic, fts, keyword))
          IN SetTurn(t, IF failure = "raised"
                        THEN [tr EXCEPT !.pc = "llm_response", !.error_message = "rag",
                                        !.rag_search_result = "nodocs"]
                        ELSE [tr EXCEPT !.pc = "llm_response",
                                        !.rag_search_result =
                                            IF documents_found # <<>> THEN "docs"
                                            ELSE "nodocs"])
    /\ UNCHANGED <<memvars, coordvars, nTurns>>
    /\ UNCHANGED auxvars

\* _process_structured_response: json.loads, then response_data.get(...);
\* only JSONDecodeError and KeyError are caught, so the AttributeError of a
\* value that is not an object leaves the function; an object without the
\* fields gives the markdown of the empty defaults
process_structured_response(output) ==
    CASE output = "structured" -> "structured_markdown"
      [] output = "unparseable" -> "raw_with_listing"
      [] output = "missing_fields" -> "defaults_markdown"
      [] output = "not_object" -> "raises"

\* llm_response_node: the model answers, or the call or the processing of
\* the answer raises inside the try
llm_response_node(t) ==
    /\ At(t, "llm_response")
    /\ \E output \in ({"call_failed"} \cup
                      (IF turns[t].rag_search_result = "docs"
                       THEN {"structured", "unparseable", "not_object", "missing_fields"}
                       ELSE {"text"})) :
          LET tr0 == [turns[t] EXCEPT !.rag_failure = "none", !.store_empty = FALSE]
              tr == [Emit(Visit(tr0, "llm_response"), "llm_response_start")
                        EXCEPT !.llm_output = output]
              se == AddEvent(session_events, NodesHandler, "llm_response_start", NoSession)
              final_response ==
                  IF output = "call_failed" THEN "raises"
                  ELSE IF tr.rag_search_result = "docs"
                       THEN process_structured_response(output)
                       ELSE "llm"
          IN IF final_response # "raises"
             THEN /\ \E n \in ReplyLens : add_ai_message(tr.session_id, n)
                  /\ SetTurn(t, [Emit(tr, "llm_response_complete") EXCEPT
                                    !.pc = "finalize_response",
                                    !.final_response = final_response])
                  /\ session_events' =
                         AddEvent(se, NodesHandler, "llm_response_complete", NoSession)
             ELSE /\ SetTurn(t, [Emit(tr, "error") EXCEPT
                                    !.pc = "finalize_response", !.error_message = "llm",
                                    !.final_response = "llm_apology"])
                  /\ session_events' = AddEvent(se, NodesHandler, "error", NoSession)
                  /\ UNCHANGED memvars
    /\ UNCHANGED <<current_session, tool_confirmations, confirmation_events,
                   evSet, nEvents, responses, nTurns>>
    /\ UNCHANGED auxvars

finalize_response_node(t) ==
    /\ At(t, "finalize_response")
    /\ SetTurn(t, [Visit([turns[t] EXCEPT !.llm_output = "None"], "finalize_response")
                      EXCEPT !.pc = "END"])
    /\ UNCHANGED <<memvars, coordvars, nTurns>>
    /\ UNCHANGED auxvars

\* ------------------------------------------------ confirmation responses
\* from the tool_confirmation_needed event until Event.wait returns, the
\* confirmation request of a turn is pending
RequestPending(tr) == tr.pc \in {"wait_check", "wait_create", "wait_lookup", "waiting"}

\* the turn records after a response for session s was submitted to handler h
NoteResponse(h, s) ==
    [t \in Threads |->
        IF turns[t].session_id = s /\ (\/ RequestPending(turns[t])
                                       \/ turns[t].pc \in {"initialize_session", "save_user_input",
                                                           "tool_detection", "tool_execution"})
        THEN [turns[t] EXCEPT !.answered = TRUE,
                              !.blocked_resp =
                                  IF h = EndpointHandler /\ turns[t].pc = "waiting"
                                  THEN Len(responses) + 1 ELSE @]
        ELSE turns[t]]

\* POST /chat/tool-confirm, confirm_tool_execution: the response goes to the
\* handler instance of streaming_api.py
confirm_tool_execution ==
    /\ Len(responses) < MaxTurnResponses
    /\ \E s \in Sessions, r \in ResponseKinds :
          /\ set_tool_confirmation(EndpointHandler, s, r.confirmed, r.tool_args)
          /\ turns' = NoteResponse(EndpointHandler, s)
    /\ UNCHANGED <<memvars, nTurns>>
    /\ UNCHANGED auxvars

\* a caller of get_streaming_handler().set_tool_confirmation: the response goes
\* to the handler instance the nodes wait on
CoordinatorConfirm ==
    /\ Len(responses) < MaxTurnResponses
    /\ \E s \in Sessions, r \in ResponseKinds :
          /\ set_tool_confirmation(NodesHandler, s, r.confirmed, r.tool_args)
          /\ turns' = NoteResponse(NodesHandler, s)
    /\ UNCHANGED <<memvars, nTurns>>
    /\ UNCHANGED auxvars

\* ------------------------------- the coordinator called by concurrent threads
\* a thread calls wait_for_tool_confirmation(session_id)
CallWait(t) ==
    /\ turns[t].pc \in {"idle", "END"}
    /\ nTurns < MaxWaits
    /\ \E s \in Sessions :
          SetTurn(t, [IdleTurn EXCEPT !.pc = "wait_check", !.session_id = s])
    /\ nTurns' = nTurns + 1
    /\ UNCHANGED <<memvars, coordvars>>
    /\ UNCHANGED auxvars

\* a thread calls set_tool_confirmation(session_id, confirmed, tool_args)
CallSetConfirmation ==
    /\ Len(responses) < MaxResponses
    /\ \E s \in Sessions, r \in ResponseKinds :
          set_tool_confirmation(NodesHandler, s, r.confirmed, r.tool_args)
    /\ UNCHANGED <<memvars, turnvars>>
    /\ UNCHANGED auxvars

\* wait_for_tool_confirmation has returned to that caller
ReturnWait(t) ==
    /\ At(t, "after_wait")
    /\ SetTurn(t, IdleTurn)
    /\ UNCHANGED <<memvars, coordvars, nTurns>>
    /\ UNCHANGED auxvars

\* ------------------------------------------------------ document retrieval
\* Scores are in hundredths (0.8 = 80).  A search is given the matches each
\* tier finds in the store: the semantic matches as FAISS returns them
\* (nearest first), the full-text matches in bm25 order, the keyword matches
\* in created_at order.
Docs == {"d1", "d2", "d3"}

\* n counts the searches made, via names the entry point that was called,
\* wanted is the number of results asked for (limit or top_k), semantic_hits
\* the number of results of the semantic tier, fts_ran whether the full-text
\* query was executed
NoSearch ==
    [pc |-> "idle", n |-> 0, via |-> "None", search_type |-> "None", embedded |-> FALSE,
     wanted |-> 0, semantic_hits |-> 0, fts_ran |-> FALSE, results |-> <<>>]

Hit(id, score, search_type) ==
    [id |-> id, similarity_score |-> score, search_type |-> search_type]

\* the sequences of at most n distinct documents
Matches(n) ==
    UNION {{f \in [1..k -> Docs] : \A i, j \in 1..k : i # j => f[i] # f[j]} : k \in 0..n}

\* semantic_search: (doc_id, similarity) pairs of distinct documents,
\* similarity 1 / (1 + distance) for distances in ascending order
SemanticMatches(n) ==
    UNION {{f \in [1..k -> Docs \X SemanticScores] :
               /\ \A i, j \in 1..k : i # j => f[i][1] # f[j][1]
               /\ \A i \in 1..(k - 1) : f[i][2] >= f[i + 1][2]} : k \in 0..n}

FirstN(seq, n) == IF n <= 0 THEN <<>> ELSE SubSeq(seq, 1, IF n < Len(seq) THEN n ELSE Len(seq))
Ids(results) == {results[i].id : i \in DOMAIN results}
NotIn(seq, ids) == SelectSeq(seq, LAMBDA d : d \notin ids)

\* search_documents line 429, results.sort(key=similarity_score, reverse=True):
\* descending and stable
RECURSIVE InsertByScore(_, _)
InsertByScore(sorted, x) ==
    IF sorted = <<>> THEN <<x>>
    ELSE IF Head(sorted).similarity_score >= x.similarity_score
         THEN <<Head(sorted)>> \o InsertByScore(Tail(sorted), x)
         ELSE <<x>> \o sorted

RECURSIVE SortByScore(_)
SortByScore(seq) ==
    IF seq = <<>> THEN <<>>
    ELSE InsertByScore(SortByScore(SubSeq(seq, 1, Len(seq) - 1)), seq[Len(seq)])

\* search_documents lines 324-353: the semantic tier
SemanticTier(embedded, limit, search_type, semantic) ==
    LET top == FirstN(semantic, limit)
    IN IF embedded /\ search_type \in {"semantic", "hybrid"}
       THEN [i \in 1..Len(top) |-> Hit(top[i][1], top[i][2], "semantic")]
       ELSE <<>>

\* search_documents lines 356-365: the conditions under which the full-text
\* query is executed
FtsQueryRuns(search_type, r1, limit) ==
    /\ search_type \in {"fts", "keyword", "hybrid"}
    /\ limit - Len(r1) > 0
    /\ search_type \in {"fts", "hybrid"}

\* FAISSDocumentDatabase.search_documents
search_documents(embedded, limit, search_type, semantic, fts, keyword) ==
    LET r1 == SemanticTier(embedded, limit, search_type, semantic)
        sql == search_type \in {"fts", "keyword", "hybrid"} /\ limit - Len(r1) > 0
        f == FirstN(NotIn(fts, Ids(r1)), limit - Len(r1))
        r2 == IF FtsQueryRuns(search_type, r1, limit)
              THEN r1 \o [i \in 1..Len(f) |-> Hit(f[i], FtsScore, "fts")]
              ELSE r1
        k == FirstN(NotIn(keyword, Ids(r2)), limit - Len(r2))
        r3 == IF sql /\ limit - Len(r2) > 0 /\ search_type \in {"keyword", "hybrid"}
              THEN r2 \o [i \in 1..Len(k) |-> Hit(k[i], KeywordScore, "keyword")]
              ELSE r2
    IN FirstN(SortByScore(r3), limit)

\* a client calls search_documents
SearchDocumentsCall ==
    /\ search.pc = "idle"
    /\ search.n < MaxSearches
    /\ \E embedded \in BOOLEAN, limit \in {2, 3},
          search_type \in {"semantic", "fts", "keyword", "hybrid"},
          semantic \in SemanticMatches(MaxHits), fts \in Matches(MaxHits),
          keyword \in Matches(MaxHits) :
          LET r1 == SemanticTier(embedded, limit, search_type, semantic)
          IN search' = [pc |-> "done", n |-> search.n + 1, via |-> "search_documents",
                        search_type |-> search_type, embedded |-> embedded,
                        wanted |-> limit, semantic_hits |-> Len(r1),
                        fts_ran |-> FtsQueryRuns(search_type, r1, limit),
                        results |-> search_documents(embedded, limit, search_type,
                                                     semantic, fts, keyword)]
    /\ UNCHANGED <<memvars, coordvars, turnvars, extvars, inits, created_at, db_clock, history_read,
                   docvars>>

\* RAGSystem.search_relevant_documents: semantic search when the query could
\* be embedded, hybrid search without an embedding otherwise
search_relevant_documents ==
    /\ search.pc = "idle"
    /\ search.n < MaxSearches
    /\ \E embedded \in BOOLEAN, top_k \in ({1, 2}),
          semantic \in SemanticMatches(MaxHits), fts \in Matches(MaxHits),
          keyword \in Matches(MaxHits) :
          LET search_type == IF embedded THEN "semantic" ELSE "hybrid"
              r1 == SemanticTier(embedded, top_k * 2, search_type, semantic)
          IN search' = [pc |-> "done", n |-> search.n + 1,
                        via |-> "search_relevant_documents",
                        search_type |-> search_type, embedded |-> embedded,
                        wanted |-> top_k, semantic_hits |-> Len(r1),
                        fts_ran |-> FtsQueryRuns(search_type, r1, top_k * 2),
                        results |-> FirstN(search_documents(embedded, top_k * 2, search_type,
                                                          semantic, fts, keyword), top_k)]
    /\ UNCHANGED <<memvars, coordvars, turnvars, extvars, inits, created_at, db_clock, history_read,
                   docvars>>

\* the caller has the list and the next search can start
SearchReturn ==
    /\ search.pc = "done"
    /\ search' = [NoSearch EXCEPT !.n = search.n]
    /\ UNCHANGED <<memvars, coordvars, turnvars, extvars, inits, created_at, db_clock, history_read,
                   docvars>>

NextSearch ==
    \/ SearchDocumentsCall
    \/ search_relevant_documents
    \/ SearchReturn

\* ------------------------------------------------------ the document store
NoIndex == -1

DocRow(id, faiss_index) == [id |-> id, status |-> "active", faiss_index |-> faiss_index]

\* add_document: with an embedding the vector is appended to the index and the
\* id to document_ids, the row stores the ordinal; without one the row has no
\* ordinal; an embedding of the wrong dimension returns before any insert
add_document ==
    /\ search.pc = "idle"
    /\ Len(documents) < MaxDocs
    /\ \E embedding \in {"None", "ok", "wrong_dimension"} :
          LET doc_id == (<<"d1", "d2", "d3">>)[Len(documents) + 1]
          IN CASE embedding = "ok" ->
                    /\ index' = Append(index, doc_id)
                    /\ document_ids' = Append(document_ids, doc_id)
                    /\ documents' = Append(documents, DocRow(doc_id, Len(index)))
               [] embedding = "None" ->
                    /\ documents' = Append(documents, DocRow(doc_id, NoIndex))
                    /\ UNCHANGED <<index, document_ids>>
               [] embedding = "wrong_dimension" ->
                    /\ documents' = documents
                    /\ UNCHANGED <<index, document_ids>>
    /\ UNCHANGED <<memvars, coordvars, turnvars, extvars, inits, created_at, db_clock, history_read,
                   search>>

\* delete_document: the row is marked deleted, the index is left alone
delete_document ==
    /\ search.pc = "idle"
    /\ \E i \in DOMAIN documents :
          /\ documents[i].status = "active"
          /\ documents' = [documents EXCEPT ![i].status = "deleted"]
    /\ UNCHANGED <<index, document_ids>>
    /\ UNCHANGED <<memvars, coordvars, turnvars, extvars, inits, created_at, db_clock, history_read,
                   search>>

\* rebuild_faiss_index: a new empty index and an empty id list take the place
\* of the old ones; the rows are not touched
rebuild_faiss_index ==
    /\ search.pc = "idle"
    /\ index' = <<>>
    /\ document_ids' = <<>>
    /\ UNCHANGED documents
    /\ UNCHANGED <<memvars, coordvars, turnvars, extvars, inits, created_at, db_clock, history_read,
                   search>>

\* the row of a document id
RowOf(id) == documents[CHOOSE i \in DOMAIN documents : documents[i].id = id]

\* a read that keeps the rows whatever their status
AnyStatus(ids) == ids

\* AND status = 'active' of the three queries of search_documents
ActiveOnly(ids) == SelectSeq(ids, LAMBDA d : RowOf(d).status = "active")

\* semantic_search: the nearest top_k ordinals in the order FAISS returns
\* them, mapped through document_ids; score is the similarity of the hits
semantic_search(order, top_k, score) ==
    LET n == IF top_k < Len(index) THEN top_k ELSE Len(index)
        ordinals == SelectSeq([i \in 1..n |-> order[i]], LAMBDA o : o <= Len(document_ids))
    IN [i \in 1..Len(ordinals) |-> <<document_ids[ordinals[i]], score>>]

\* the rows chosen by a set of positions, in insertion order
RowIds(positions) ==
    LET all == [i \in DOMAIN documents |-> documents[i].id]
    IN SelectSeq(all, LAMBDA d : \E i \in positions : documents[i].id = d)

\* search_documents on the store: order is the order of the vectors by
\* distance to the query, fts and keyword the rows the two queries match
StoreSearch ==
    /\ search.pc = "idle"
    /\ search.n < MaxSearches
    /\ \E embedded \in BOOLEAN, limit \in {1, 2},
          search_type \in {"semantic", "fts", "keyword", "hybrid"},
          order \in Perms(Len(index)), score \in SemanticScores,
          fts \in SUBSET DOMAIN documents, keyword \in SUBSET DOMAIN documents :
          LET hits == semantic_search(order, limit, score)
              found == SelectSeq(hits, LAMBDA h : \E i \in DOMAIN documents :
                                                     documents[i].id = h[1])
              semantic == SelectSeq(found, LAMBDA h : ActiveOnly(<<h[1]>>) # <<>>)
              r1 == SemanticTier(embedded, limit, search_type, semantic)
          IN search' = [pc |-> "done", n |-> search.n + 1, via |-> "store",
                        search_type |-> search_type, embedded |-> embedded,
                        wanted |-> limit, semantic_hits |-> Len(r1),
                        fts_ran |-> FtsQueryRuns(search_type, r1, limit),
                        results |-> search_documents(embedded, limit, search_type, semantic,
                                                     ActiveOnly(RowIds(fts)),
                                                     ActiveOnly(RowIds(keyword)))]
    /\ UNCHANGED <<memvars, coordvars, turnvars, extvars, inits, created_at, db_clock, history_read,
                   docvars>>

NextDocs ==
    \/ add_document
    \/ delete_document
    \/ rebuild_faiss_index
    \/ StoreSearch
    \/ SearchReturn

\* ------------------------------------------------- the event bus, called

NoCall == [op |-> "None", h |-> "None", s |-> NoSession, events |-> <<>>]
\* an add_event call: the session_id argument, the session whose turn makes
\* the call (of), the target it computed, and the queue the event landed in
NoAdd == [h |-> "None", event_type |-> "None", session_id |-> NoSession, of |-> NoSession,
          target |-> NoSession, landed |-> NoSession]

\* set_current_session (under _lock)
set_current_session(h, s) ==
    /\ bus.n < MaxBusCalls
    /\ current_session' = [current_session EXCEPT ![h] = s]
    /\ session_events' =
           IF session_events[h][s].present THEN session_events
           ELSE [session_events EXCEPT ![h][s] = [present |-> TRUE, q |-> <<>>]]
    /\ bus' = [bus EXCEPT !.n = @ + 1,
                          !.last_op = [NoCall EXCEPT !.op = "set_current_session",
                                                     !.h = h, !.s = s]]
    /\ UNCHANGED <<memvars, tool_confirmations, confirmation_events, evSet, nEvents,
                   responses, turnvars, inits, created_at, db_clock, history_read, search,
                   docvars, sup>>

\* add_event, first step (outside _lock): target_session = session_id or
\* self._current_session; without a target the call returns
AddEventTarget(h, event_type, session_id, of) ==
    /\ bus.n < MaxBusCalls
    /\ bus.adding = NoAdd
    /\ LET target == IF session_id # NoSession THEN session_id ELSE current_session[h]
           call == [NoAdd EXCEPT !.h = h, !.event_type = event_type,
                                 !.session_id = session_id, !.of = of, !.target = target]
       IN IF target = NoSession
          THEN bus' = [bus EXCEPT !.n = @ + 1, !.last_add = call,
                                  !.last_op = [NoCall EXCEPT !.op = "add_event", !.h = h]]
          ELSE bus' = [bus EXCEPT !.n = @ + 1, !.adding = call]
    /\ UNCHANGED <<memvars, coordvars, turnvars, inits, created_at, db_clock, history_read,
                   search, docvars, sup>>

\* add_event, second step (under _lock): append when the target has a queue
AddEventAppend ==
    /\ bus.adding # NoAdd
    /\ LET a == bus.adding
           lands == session_events[a.h][a.target].present
       IN /\ session_events' = AddEvent(session_events, a.h, a.event_type, a.target)
          /\ bus' = [bus EXCEPT
                        !.adding = NoAdd,
                        !.last_add = [a EXCEPT !.landed = IF lands THEN a.target
                                                           ELSE NoSession],
                        !.last_op = [NoCall EXCEPT !.op = "add_event", !.h = a.h,
                                                   !.s = a.target],
                        !.added[a.h][a.target] =
                            IF lands THEN Append(@, a.event_type) ELSE @]
    /\ UNCHANGED <<memvars, current_session, tool_confirmations, confirmation_events, evSet,
                   nEvents, responses, turnvars, inits, created_at, db_clock, history_read,
                   search, docvars, sup>>

\* python: a deque read from the right end, newest first
RECURSIVE NewestFirst(_)
NewestFirst(q) == IF q = <<>> THEN <<>> ELSE <<q[Len(q)]>> \o NewestFirst(SubSeq(q, 1, Len(q) - 1))

\* python: while session_queue: events.append(session_queue.popleft())
RECURSIVE PopAllLeft(_)
PopAllLeft(q) == IF q = <<>> THEN <<>> ELSE <<Head(q)>> \o PopAllLeft(Tail(q))

\* get_pending_events (under _lock): [] for a session without queue, else
\* every event of the queue, which is left empty
get_pending_events(h, s) ==
    /\ bus.n < MaxBusCalls
    /\ LET has == session_events[h][s].present
           events == IF has THEN PopAllLeft(session_events[h][s].q) ELSE <<>>
       IN /\ session_events' =
                 IF has
                 THEN [session_events EXCEPT
                          ![h][s].q = SubSeq(@, Len(events) + 1, Len(@))]
                 ELSE session_events
          /\ bus' = [bus EXCEPT !.n = @ + 1,
                                !.polled[h][s] = @ \o events,
                                !.last_op = [op |-> "get_pending_events", h |-> h, s |-> s,
                                             events |-> events]]
    /\ UNCHANGED <<memvars, current_session, tool_confirmations, confirmation_events, evSet,
                   nEvents, responses, turnvars, inits, created_at, db_clock, history_read,
                   search, docvars, sup>>

\* cleanup_session (under _lock): the queue is deleted, and the current
\* session forgotten when it is this one
cleanup_session(h, s) ==
    /\ bus.n < MaxBusCalls
    /\ session_events' = [session_events EXCEPT ![h][s] = NoQueue]
    /\ current_session' =
           IF current_session[h] = s THEN [current_session EXCEPT ![h] = NoSession]
           ELSE current_session
    /\ bus' = [bus EXCEPT !.n = @ + 1,
                          !.added[h][s] = <<>>,
                          !.polled[h][s] = <<>>,
                          !.last_op = [NoCall EXCEPT !.op = "cleanup_session",
                                                     !.h = h, !.s = s]]
    /\ UNCHANGED <<memvars, tool_confirmations, confirmation_events, evSet, nEvents,
                   responses, turnvars, inits, created_at, db_clock, history_read, search,
                   docvars, sup>>

NextBus ==
    \/ \E h \in Handlers, s \in Sessions : set_current_session(h, s)
    \* add_event called with the session named
    \/ \E h \in Handlers, ty \in {"tool_detected", "llm_response_start"}, s \in Sessions :
          AddEventTarget(h, ty, s, s)
    \* add_event called as the helper methods call it, without a session, on
    \* behalf of one of the open streams of the handler
    \/ \E h \in Handlers, ty \in {"tool_detected", "llm_response_start"} :
          \E s \in {x \in Sessions : session_events[h][x].present} :
              AddEventTarget(h, ty, NoSession, s)
    \/ AddEventAppend
    \/ \E h \in Handlers, s \in Sessions : get_pending_events(h, s)
    \/ \E h \in Handlers, s \in Sessions : cleanup_session(h, s)

\* ------------------------------------------------------- the supervisor
\* the threads that call SupervisorAgent.invoke on the one instance
Invocations == {1, 2}

\* the k-th task of the plan the model wrote for the invocation of thread i;
\* RawText(i) is the whole text of the model's plan output, taken as a task
Task(i, k) == [of |-> i, k |-> k]

\* the value of self.task_list: a list of tasks, or a JSON value that is no
\* array and not false (a string, a number, an object)
TaskList(items) == [is_list |-> TRUE, items |-> items]

IdleInvocation ==
    [pc |-> "idle", plan_output |-> "None", plan |-> TaskList(<<>>), current_task |-> (Task(0, 0)),
     delegation_output |-> "None", how |-> "None", results |-> <<>>, raised |-> "None"]

AtInv(i, pc) == sup.invocation[i].pc = pc

\* python: json.loads(plan_response_text).get("tasks", []) inside
\* try/except json.JSONDecodeError: the value assigned to self.task_list, or
\* the exception that leaves invoke
ParsePlan(i, output, n) ==
    LET NotAList == [is_list |-> FALSE, items |-> <<>>]
    IN CASE output = "tasks" ->
                [raised |-> "None", value |-> TaskList([k \in 1..n |-> Task(i, k)])]
         [] output = "unparseable" ->
                [raised |-> "None", value |-> TaskList(<<Task(i, 0)>>)]
         [] output = "no_tasks_field" ->
                [raised |-> "None", value |-> TaskList(<<>>)]
         [] output = "tasks_not_array" ->
                [raised |-> "None", value |-> NotAList]
         [] output = "not_object" ->
                [raised |-> "AttributeError", value |-> NotAList]

\* invoke, lines 42-67: the plan prompt, the model call, the parsing; the
\* plan is assigned to self.task_list
Plan(i) ==
    /\ AtInv(i, "idle")
    /\ sup.n < MaxInvocations
    /\ \E output \in {"tasks", "unparseable", "not_object",
                       "no_tasks_field", "tasks_not_array"},
          n \in 0..MaxTasks :
          /\ (output # "tasks" => n = 0)
          /\ LET parsed == ParsePlan(i, output, n)
                 inv == [IdleInvocation EXCEPT !.plan_output = output]
             IN IF parsed.raised # "None"
                THEN sup' = [sup EXCEPT !.n = @ + 1,
                                        !.invocation[i] =
                                            [inv EXCEPT !.pc = "raised",
                                                        !.raised = parsed.raised]]
                ELSE sup' = [sup EXCEPT !.n = @ + 1,
                                        !.task_list = parsed.value,
                                        !.invocation[i] =
                                            [inv EXCEPT !.pc = "while",
                                                        !.plan = parsed.value]]
    /\ UNCHANGED <<memvars, coordvars, turnvars, inits, created_at, db_clock, history_read,
                   search, docvars, bus>>

\* line 73: while self.task_list
LoopTest(i) ==
    /\ AtInv(i, "while")
    /\ sup' = [sup EXCEPT !.invocation[i].pc =
                              IF sup.task_list.is_list /\ sup.task_list.items = <<>>
                              THEN "summarize" ELSE "pop"]
    /\ UNCHANGED <<memvars, coordvars, turnvars, inits, created_at, db_clock, history_read,
                   search, docvars, bus>>

\* line 74: current_task = self.task_list.pop(0); a value that is no list
\* has no pop, an empty list raises IndexError
Pop(i) ==
    /\ AtInv(i, "pop")
    /\ IF ~sup.task_list.is_list
       THEN sup' = [sup EXCEPT !.invocation[i].pc = "raised",
                               !.invocation[i].raised = "AttributeError"]
       ELSE IF sup.task_list.items = <<>>
            THEN sup' = [sup EXCEPT !.invocation[i].pc = "raised",
                                    !.invocation[i].raised = "IndexError"]
            ELSE sup' = [sup EXCEPT !.task_list.items = Tail(@),
                                    !.invocation[i].pc = "delegate",
                                    !.invocation[i].current_task =
                                        Head(sup.task_list.items)]
    /\ UNCHANGED <<memvars, coordvars, turnvars, inits, created_at, db_clock, history_read,
                   search, docvars, bus>>

\* lines 99-111: who runs the task, or the exception that leaves invoke
ParseDelegation(output) ==
    CASE output = "registered_agent" -> "delegated"
      [] output = "other_agent" -> "self"
      [] output = "unparseable" -> "self"
      [] output = "not_object" -> "AttributeError"

\* lines 77-133: the delegation prompt, the model call, the parsing, the
\* execution by the selected agent or by the supervisor itself, and
\* results.append(task_result)
DelegateAndExecute(i) ==
    /\ AtInv(i, "delegate")
    /\ \E output \in ({"registered_agent", "other_agent", "unparseable", "not_object"}) :
          LET how == ParseDelegation(output)
              inv == [sup.invocation[i] EXCEPT !.delegation_output = output]
          IN IF how = "AttributeError"
             THEN sup' = [sup EXCEPT !.invocation[i] =
                                         [inv EXCEPT !.pc = "raised", !.raised = how]]
             ELSE sup' = [sup EXCEPT !.invocation[i] =
                                         [inv EXCEPT !.pc = "context", !.how = how,
                                                     !.results =
                                                         Append(@, inv.current_task)]]
    /\ UNCHANGED <<memvars, coordvars, turnvars, inits, created_at, db_clock, history_read,
                   search, docvars, bus>>

\* line 137: if self.task_list
ContextTest(i) ==
    /\ AtInv(i, "context")
    /\ sup' = [sup EXCEPT !.invocation[i].pc =
                              IF sup.task_list.is_list /\ sup.task_list.items = <<>>
                              THEN "while" ELSE "preview"]
    /\ UNCHANGED <<memvars, coordvars, turnvars, inits, created_at, db_clock, history_read,
                   search, docvars, bus>>

\* line 138: self.task_list[0]; an empty list raises IndexError
ContextPreview(i) ==
    /\ AtInv(i, "preview")
    /\ sup' = [sup EXCEPT !.invocation[i].pc =
                              IF sup.task_list.is_list /\ sup.task_list.items = <<>>
                              THEN "raised" ELSE "while",
                          !.invocation[i].raised =
                              IF sup.task_list.is_list /\ sup.task_list.items = <<>>
                              THEN "IndexError" ELSE @]
    /\ UNCHANGED <<memvars, coordvars, turnvars, inits, created_at, db_clock, history_read,
                   search, docvars, bus>>

\* lines 141-159: the final synthesis over results
Summarize(i) ==
    /\ AtInv(i, "summarize")
    /\ sup' = [sup EXCEPT !.invocation[i].pc = "returned"]
    /\ UNCHANGED <<memvars, coordvars, turnvars, inits, created_at, db_clock, history_read,
                   search, docvars, bus>>

\* MultiAgentSystem.invoke returns (the answer, or the error message made of
\* the exception) and the thread is free for the next call
InvokeReturn(i) ==
    /\ sup.invocation[i].pc \in {"returned", "raised"}
    /\ sup.n < MaxInvocations
    /\ sup' = [sup EXCEPT !.invocation[i] = IdleInvocation]
    /\ UNCHANGED <<memvars, coordvars, turnvars, inits, created_at, db_clock, history_read,
                   search, docvars, bus>>

\* ------------------------------------------------------------------- Init
Init ==
    /\ chat_sessions = {}
    /\ chat_messages = [s \in Sessions |-> <<>>]
    /\ session_histories = [s \in Sessions |-> NoHistory]
    /\ bg = EmptyBag
    /\ nAppends = 0
    /\ appended = [s \in Sessions |-> <<>>]
    /\ passes = [s \in Sessions |-> 0]
    /\ session_events = [h \in Handlers |-> [s \in Sessions |-> NoQueue]]
    /\ current_session = [h \in Handlers |-> NoSession]
    /\ tool_confirmations = [h \in Handlers |-> [s \in Sessions |-> NoConf]]
    /\ confirmation_events = [h \in Handlers |-> [s \in Sessions |-> NoEvent]]
    /\ evSet = {}
    /\ nEvents = 0
    /\ responses = <<>>
    /\ turns = [t \in Threads |-> IdleTurn]
    /\ nTurns = 0
    /\ inits = 0
    /\ created_at = [s \in Sessions |-> <<>>]
    /\ db_clock = 0
    /\ history_read = ([s |-> "None", fresh |-> FALSE, entries |-> <<>>])
    /\ search = NoSearch
    /\ documents = <<>>
    /\ index = <<>>
    /\ document_ids = <<>>
    /\ bus = ([n |-> 0,
               added |-> [h \in Handlers |-> [s \in Sessions |-> <<>>]],
               polled |-> [h \in Handlers |-> [s \in Sessions |-> <<>>]],
               last_op |-> NoCall,
               adding |-> NoAdd,
               last_add |-> NoAdd])
    /\ sup = ([task_list |-> TaskList(<<>>), n |-> 0,
               invocation |-> [i \in Invocations |-> IdleInvocation]])

\* ------------------------- specification of the turn and the confirmation

\* the steps of the turn thread t runs, once started
TurnStep(t) ==
    \/ initialize_session_node(t)
    \/ save_user_input_node(t)
    \/ tool_detection_node(t)
    \/ tool_execution_node(t)
    \/ WaitCheck(t)
    \/ WaitCreate(t)
    \/ WaitLookup(t)
    \/ WaitWake(t)
    \/ WaitTimeout(t)
    \/ WaitTake(t)
    \/ WaitRelease(t)
    \/ AfterWait(t)
    \/ ExecuteTool(t)
    \/ rag_search_node(t)
    \/ llm_response_node(t)
    \/ finalize_response_node(t)

NextTurn ==
    \/ (\E t \in ({1}) : StartTurn(t))
    \/ (\E t \in Threads : initialize_session_node(t))
    \/ (\E t \in Threads : save_user_input_node(t))
    \/ (\E t \in Threads : tool_detection_node(t))
    \/ (\E t \in Threads : tool_execution_node(t))
    \/ (\E t \in Threads : WaitCheck(t))
    \/ (\E t \in Threads : WaitCreate(t))
    \/ (\E t \in Threads : WaitLookup(t))
    \/ (\E t \in Threads : WaitWake(t))
    \/ (\E t \in Threads : WaitTimeout(t))
    \/ (\E t \in Threads : WaitTake(t))
    \/ (\E t \in Threads : WaitRelease(t))
    \/ (\E t \in Threads : AfterWait(t))
    \/ (\E t \in Threads : ExecuteTool(t))
    \/ (\E t \in Threads : rag_search_node(t))
    \/ (\E t \in Threads : llm_response_node(t))
    \/ (\E t \in Threads : finalize_response_node(t))
    \/ confirm_tool_execution
    \/ CoordinatorConfirm

\* one worker thread runs turns one after the other; the daemon threads
\* started by the appends of a turn are scheduled in SpecMem
SpecTurn == Init /\ [][NextTurn]_vars

\* a started worker thread keeps running; Event.wait ends by a set flag or by
\* its timeout
SpecTurnFair == SpecTurn /\ \A t \in Threads : WF_vars(TurnStep(t))

\* ---------------- specification of the coordinator under concurrent callers

NextCoord ==
    \/ (\E t \in Threads : CallWait(t))
    \/ (\E t \in Threads : WaitCheck(t))
    \/ (\E t \in Threads : WaitCreate(t))
    \/ (\E t \in Threads : WaitLookup(t))
    \/ (\E t \in Threads : WaitWake(t))
    \/ (\E t \in Threads : WaitTimeout(t))
    \/ (\E t \in Threads : WaitTake(t))
    \/ (\E t \in Threads : WaitRelease(t))
    \/ (\E t \in Threads : ReturnWait(t))
    \/ CallSetConfirmation

SpecCoord == Init /\ [][NextCoord]_vars

\* --------------------------------------- specification of the memory manager
AddUser ==
    /\ nAppends < MaxAppends
    /\ \E s \in Sessions, n \in ({1600, 1700}) : add_user_message(s, n)
    /\ UNCHANGED <<coordvars, turnvars>>
    /\ UNCHANGED auxvars

AddAi ==
    /\ nAppends < MaxAppends
    /\ \E s \in Sessions, n \in ReplyLens : add_ai_message(s, n)
    /\ UNCHANGED <<coordvars, turnvars>>
    /\ UNCHANGED auxvars

AddTool ==
    /\ nAppends < MaxAppends
    /\ \E s \in Sessions, n \in ReplyLens : add_tool_message(s, n, "add")
    /\ UNCHANGED <<coordvars, turnvars>>
    /\ UNCHANGED auxvars

InitializeSessionCall ==
    /\ inits < MaxInits
    /\ \E s \in Sessions : initialize_session(s)
    /\ UNCHANGED <<coordvars, turnvars>>

BgCheck == \E th \in Running : CheckAndSummarize(th)
BgInstall == \E th \in Running : SummarizeInstall(th)

NextMem ==
    \/ AddUser
    \/ AddAi
    \/ AddTool
    \/ BgCheck
    \/ BgInstall
    \/ (\E th \in Running : SummarizeFail(th))

SpecMem == Init /\ [][NextMem]_vars

\* the memory manager with every summary model call succeeding and every
\* background thread scheduled: a started thread.start() runs to its end
NextMemFair ==
    \/ AddUser
    \/ AddAi
    \/ AddTool
    \/ BgCheck
    \/ BgInstall

SpecMemFair ==
    Init /\ [][NextMemFair]_vars /\ WF_vars(BgCheck) /\ WF_vars(BgInstall)

\* SmartMemoryManager.__init__ on the same store: the process is started
\* again, session_histories is empty, the daemon threads are gone
Restart ==
    /\ session_histories' = [s \in Sessions |-> NoHistory]
    /\ bg' = EmptyBag
    /\ UNCHANGED <<chat_sessions, chat_messages, nAppends, appended, passes>>
    /\ UNCHANGED <<coordvars, turnvars, auxvars>>

\* the manager used by clients that initialize sessions, append, and are
\* started again on the same store
NextInit ==
    \/ AddUser
    \/ AddAi
    \/ AddTool
    \/ InitializeSessionCall
    \/ Restart

SpecInit == Init /\ [][NextInit]_vars

\* the chat store called directly
SpecStore == Init /\ [][NextStore]_vars

\* document searches, one at a time
SpecSearch == Init /\ [][NextSearch]_vars

\* the document store: additions, soft deletions, rebuilds and searches
SpecDocs == Init /\ [][NextDocs]_vars

\* the event bus called directly by concurrent clients
SpecBus == Init /\ [][NextBus]_vars

NextSupervisor ==
    \/ \E i \in ({1}) : Plan(i)
    \/ \E i \in ({1}) : LoopTest(i)
    \/ \E i \in ({1}) : Pop(i)
    \/ \E i \in ({1}) : DelegateAndExecute(i)
    \/ \E i \in ({1}) : ContextTest(i)
    \/ \E i \in ({1}) : ContextPreview(i)
    \/ \E i \in ({1}) : Summarize(i)
    \/ \E i \in ({1}) : InvokeReturn(i)

SpecSupervisor == Init /\ [][NextSupervisor]_vars

\* get_multi_agent_system: one instance for every caller; two threads invoke it
NextSupervisorShared ==
    \/ \E i \in Invocations : Plan(i)
    \/ \E i \in Invocations : LoopTest(i)
    \/ \E i \in Invocations : Pop(i)
    \/ \E i \in Invocations : DelegateAndExecute(i)
    \/ \E i \in Invocations : ContextTest(i)
    \/ \E i \in Invocations : ContextPreview(i)
    \/ \E i \in Invocations : Summarize(i)
    \/ \E i \in Invocations : InvokeReturn(i)

SpecSupervisorShared == Init /\ [][NextSupervisorShared]_vars

\* ----------------------------------------------------- memory manager claims
RECURSIVE Copies(_, _)
Copies(B, S) == IF S = {} THEN 0
                ELSE LET x == CHOOSE y \in S : TRUE IN CopiesIn(x, B) + Copies(B, S \ {x})


\* C7: for every session the number of rows persisted in the chat store equals
\* the number of appends made through the memory manager
C7_PersistedCountEqualsAppends ==
    \A s \in Sessions : get_session_message_count(s) = Len(appended[s])

\* C8: a step that completes a summarization pass of a session leaves the view
\* of that session ending with the 2 most recently appended messages
C8_ViewEndsWithLastTwo ==
    [][\A s \in Sessions :
          passes'[s] # passes[s] =>
              Last2(session_histories'[s].messages) = Last2(appended'[s])]_vars

\* C9: at no time are two summarization passes in flight for the same session
C9_NoOverlappingPasses ==
    \A s \in Sessions :
        Copies(bg, {th \in Running : th.s = s /\ th.pc = "invoke"}) <= 1

\* C10: once the persisted character count of a session exceeds max_tokens
\* (the session holding more than 2 messages, so that there is a prefix to
\* summarize), the view of the session eventually is one summary system
\* message followed by the last 2 appended messages
C10_EventuallyCompacted ==
    \A s \in Sessions :
        (NeedsSummary(s) /\ Len(appended[s]) > KeepRecent)
            ~> (View(s) = <<Msg("SystemMessage", SummaryText)>> \o Last2(appended[s]))

\* ------------------------------------------- confirmation handshake claims
Has(seq, e) == \E i \in DOMAIN seq : seq[i] = e

\* C1: a turn that asked for a confirmation, with no response submitted for its
\* session from the start of the turn until its wait returned, ends the wait
\* with the outcome declined-by-timeout: one
\* tool_confirmation_timeout event, no tool run, and the turn ends having
\* gone on through rag_search, llm_response and finalize_response
C1_UnansweredRequestIsDeclined ==
    \A t \in Threads :
        LET tr == turns[t]
            Count(e) == Cardinality({i \in DOMAIN tr.emitted : tr.emitted[i] = e})
            DeclinedPath ==
                <<"initialize_session", "save_user_input", "tool_detection",
                  "tool_execution", "rag_search", "llm_response", "finalize_response">>
        IN (/\ Has(tr.emitted, "tool_confirmation_needed")
            /\ ~RequestPending(tr)
            /\ tr.pc \notin {"woken", "timedout"}
            /\ ~tr.answered) =>
              /\ tr.wait_outcome = "timeout"
              /\ tr.tool_runs = 0
              /\ ~Has(tr.emitted, "tool_execution_start")
              /\ tr.pc # "after_wait" => Count("tool_confirmation_timeout") = 1
              /\ tr.pc = "END" => tr.path = DeclinedPath /\ ~tr.raised

\* C2: in a turn that has run tool_execution: with a confidence below the
\* floor no tool_confirmation_needed event is emitted, no wait is started and
\* no tool runs; with a confidence at or above the floor and a known tool the
\* tool_confirmation_needed event is emitted, before any tool_execution_start
\* event and before the tool is invoked
C2_ConfirmationFloor ==
    \A t \in Threads :
        LET tr == turns[t]
            d == tr.tool_detection_result
        IN Has(tr.path, "tool_execution") =>
              /\ d.confidence < ConfidenceFloor =>
                    /\ ~Has(tr.emitted, "tool_confirmation_needed")
                    /\ ~Has(tr.emitted, "tool_execution_start")
                    /\ tr.ev = NoEvent /\ tr.wait_outcome = "none" /\ ~tr.raised
                    /\ ~RequestPending(tr) /\ tr.pc \notin {"woken", "timedout", "after_wait"}
                    /\ tr.tool_runs = 0 /\ tr.pc # "execute_tool"
              /\ (d.confidence >= ConfidenceFloor /\ HasSchema(d.tool_name)) =>
                    /\ Has(tr.emitted, "tool_confirmation_needed")
                    /\ Has(tr.emitted, "tool_execution_start") =>
                          LET FirstIndex(e) ==
                                  CHOOSE i \in DOMAIN tr.emitted :
                                      /\ tr.emitted[i] = e
                                      /\ \A j \in 1..(i - 1) : tr.emitted[j] # e
                          IN FirstIndex("tool_confirmation_needed")
                                 < FirstIndex("tool_execution_start")
                    /\ (tr.tool_runs > 0 \/ tr.pc = "execute_tool") =>
                          Has(tr.emitted, "tool_execution_start")

\* a turn whose detection sits exactly on the floor has run its tool
C2_Witness ==
    \E t \in Threads :
        /\ turns[t].tool_detection_result.confidence = ConfidenceFloor
        /\ turns[t].tool_runs = 1
        /\ turns[t].pc = "END"

\* C3: a turn that was blocked in the confirmation wait when the endpoint
\* accepted a response for its session leaves the wait with that response
C3_EndpointResponseReleasesWait ==
    \A t \in Threads :
        LET tr == turns[t]
        IN (tr.blocked_resp # 0 /\ tr.pc \notin {"waiting", "woken", "timedout"}) =>
              /\ tr.wait_outcome = "result"
              /\ tr.confirmation_result.timestamp = tr.blocked_resp

\* C4: every submitted response is returned by at most one wait, and a
\* response no wait has returned is still stored for its session
C4_ResponseResolvesOneWait ==
    \A i \in DOMAIN responses :
        LET r == responses[i]
        IN /\ r.returned <= 1
           /\ r.returned = 0 => tool_confirmations[r.h][r.s].timestamp = i

\* C5: when wait_for_tool_confirmation has returned, the Event the call waited
\* on is no longer in the handle map of the coordinator
C5_HandleRemovedOnReturn ==
    \A t \in Threads :
        turns[t].pc = "after_wait" =>
            \A s \in Sessions : confirmation_events[NodesHandler][s] # turns[t].ev

\* a wait has returned by timeout although a response was stored in between
C5_Witness ==
    \E t \in Threads :
        /\ turns[t].pc = "after_wait"
        /\ turns[t].wait_outcome = "timeout"
        /\ tool_confirmations[NodesHandler][turns[t].session_id] # NoConf

\* C6: the tool runs with the args the confirmed response was submitted with,
\* or with the suggested args of the detection when it was submitted without
C6_ToolRunsWithResponseOrSuggestedArgs ==
    \A t \in Threads :
        LET tr == turns[t]
            r == tr.confirmation_result
        IN (tr.pc = "execute_tool" \/ tr.tool_runs > 0) =>
              tr.final_args = IF r.sent_args # "NONE" THEN r.sent_args
                              ELSE tr.tool_detection_result.suggested_args

\* --------------------------------------------------- persisted log claims
IsPrefix(a, b) == Len(a) <= Len(b) /\ SubSeq(b, 1, Len(a)) = a

\* a occurs in b as a subsequence: all of a, in the order of a
RECURSIVE IsSubseq(_, _)
IsSubseq(a, b) ==
    IF a = <<>> THEN TRUE
    ELSE IF b = <<>> THEN FALSE
    ELSE IF Head(a) = Head(b) THEN IsSubseq(Tail(a), Tail(b))
    ELSE IsSubseq(a, Tail(b))

ReadView(hists, msgs, s) ==
    IF hists[s].present /\ hists[s].loaded THEN hists[s].messages
    ELSE LoadHistory(msgs[s])

\* C12: a call of initialize_session, for a new session or for one that has
\* messages, for the first time or again, leaves the rows persisted for every
\* session and the messages a reader gets for every session as they were
C12_InitializeKeepsHistory ==
    [][inits' # inits =>
          \A s \in Sessions :
              /\ chat_messages'[s] = chat_messages[s]
              /\ ReadView(session_histories', chat_messages', s)
                     = ReadView(session_histories, chat_messages, s)]_vars

\* initialize_session has been called again, after a restart of the manager,
\* for a session that has messages
C12_Witness ==
    /\ inits = MaxInits
    /\ \E s \in Sessions :
          /\ Len(chat_messages[s]) > 0
          /\ session_histories[s].present /\ ~session_histories[s].loaded

\* C13: for a session no summarization has completed for, the in-memory list
\* of a loaded history equals the persisted rows read as messages: same
\* length, same classes and contents, same order
C13_ViewEqualsPersistedLog ==
    \A s \in Sessions :
        (passes[s] = 0 /\ session_histories[s].present /\ session_histories[s].loaded) =>
            View(s) = LoadHistory(chat_messages[s])

\* C14: a result of get_session_history taken after the last append to the
\* session lists the rows of the session in append order, one entry per
\* append, each with the role and content appended
C14_HistoryInAppendOrder ==
    history_read.fresh =>
        history_read.entries =
            [i \in 1..Len(chat_messages[history_read.s]) |->
                Entry(chat_messages[history_read.s][i])]

\* ------------------------------------------------------------ the workflow

\* the nodes run so far start at initialize_session and follow the transitions,
\* or jump to error_handling
AlongTransitions(path) ==
    LET Transitions ==
            {<<"initialize_session", "save_user_input">>,
             <<"save_user_input", "tool_detection">>,
             <<"tool_detection", "tool_execution">>,
             <<"tool_detection", "rag_search">>,
             <<"tool_execution", "finalize_response">>,
             <<"tool_execution", "rag_search">>,
             <<"rag_search", "llm_response">>,
             <<"llm_response", "finalize_response">>}
        WorkflowNodes ==
            {"initialize_session", "save_user_input", "tool_detection",
             "tool_execution", "rag_search", "llm_response", "finalize_response"}
    IN /\ path # <<>> => path[1] = "initialize_session"
       /\ \A i \in 1..(Len(path) - 1) :
             \/ <<path[i], path[i + 1]>> \in Transitions
             \/ path[i] \in WorkflowNodes /\ path[i + 1] = "error_handling"

\* C15: every turn starts at initialize_session, runs nodes only along the
\* transitions of the workflow (with error_handling as the jump for a fatal
\* error), ends only through finalize_response or error_handling, and every
\* turn that was started comes to that end
C15_TurnFollowsWorkflow ==
    LET Done(t) ==
            /\ turns[t].pc = "END"
            /\ turns[t].path # <<>>
            /\ turns[t].path[Len(turns[t].path)] \in {"finalize_response", "error_handling"}
    IN /\ [](\A t \in Threads :
               /\ AlongTransitions(turns[t].path)
               /\ turns[t].pc = "END" => Done(t))
       /\ \A t \in Threads : (turns[t].pc = "initialize_session") ~> Done(t)

\* C16: the step that leaves tool_detection goes to tool_execution if and
\* only if needs_tool is true and no error is recorded in the turn state, and
\* to rag_search in every other case
C16_ToolDetectRouting ==
    [][\A t \in Threads :
          (turns[t].pc = "tool_detection" /\ turns'[t].pc # "tool_detection") =>
              turns'[t].pc = IF turns'[t].needs_tool /\ turns'[t].error_message = "None"
                             THEN "tool_execution"
                             ELSE "rag_search"]_vars

\* error_handling_node, then END: the effect of the node on the turn state; no
\* edge of the workflow leads to it
error_handling_node(tr) ==
    [Visit(tr, "error_handling") EXCEPT !.final_response = "error_handling_apology",
                                        !.pc = "END"]

\* C17: a turn in which a node recorded a failure in error_message has run
\* error_handling, and carries its message as the final response, when it
\* has come to its end
C17_FailureRoutedToErrorHandling ==
    \A t \in Threads :
        (turns[t].pc = "END" /\ turns[t].error_message # "None") =>
            /\ Has(turns[t].path, "error_handling")
            /\ turns[t].final_response = error_handling_node(turns[t]).final_response

\* C18: chat returns for every turn, and for a turn in which a step failed
\* the text it returns is one of the apologies, never the empty string
C18_FailedTurnReturnsApology ==
    \A t \in Threads :
        (turns[t].pc = "END" /\ (turns[t].error_message # "None" \/ turns[t].raised)) =>
            turns[t].final_response \in
                {"llm_apology", "workflow_apology", "error_handling_apology"}

\* C19: the step that leaves tool_execution goes to finalize_response if and
\* only if the execution result reports success and to rag_search in every
\* other case; a turn that took the rag_search way out, and whose model call
\* did not fail, ends with the model's response
C19_ToolExecRouting ==
    /\ [][LET AtToolExec(tr) ==
                  \/ tr.pc = "tool_execution"
                  \/ /\ tr.path # <<>>
                     /\ tr.path[Len(tr.path)] = "tool_execution"
                     /\ tr.pc \notin {"rag_search", "finalize_response", "END"}
          IN \A t \in Threads :
                 (AtToolExec(turns[t]) /\ ~AtToolExec(turns'[t])) =>
                     turns'[t].pc = IF turns'[t].tool_execution_result = "success"
                                    THEN "finalize_response"
                                    ELSE "rag_search"]_vars
    /\ [](\A t \in Threads :
             LET tr == turns[t]
                 ModelResponses ==
                     {"llm", "structured_markdown", "raw_with_listing", "defaults_markdown"}
             IN (/\ tr.pc = "END"
                 /\ Has(tr.path, "tool_execution")
                 /\ tr.tool_execution_result # "success"
                 /\ tr.error_message # "llm") =>
                    /\ tr.final_response \in ModelResponses
                    /\ Has(tr.path, "rag_search")
                    /\ ~tr.raised)

\* a finished turn whose tool call failed and which the model answered
C19_Witness ==
    \E t \in Threads :
        /\ turns[t].pc = "END"
        /\ turns[t].tool_runs > 0
        /\ turns[t].tool_execution_result = "failed"
        /\ turns[t].final_response = "llm"

\* C20: the list a hybrid search returns has all semantic matches before all
\* full-text matches before all keyword matches, with non-increasing scores
\* inside each tier
C20_HybridResultsTierOrdered ==
    LET results == search.results
        TierRank(search_type) ==
            IF search_type = "semantic" THEN 1 ELSE IF search_type = "fts" THEN 2 ELSE 3
    IN (search.pc = "done" /\ search.search_type = "hybrid") =>
           \A i, j \in DOMAIN results :
               i < j =>
                   /\ TierRank(results[i].search_type) <= TierRank(results[j].search_type)
                   /\ results[i].search_type = results[j].search_type =>
                          results[i].similarity_score >= results[j].similarity_score

\* C21: a search_relevant_documents call whose semantic tier gave fewer than
\* top_k results, or that had no query embedding, has run the full-text query
C21_FullTextFillsRemainingSlots ==
    (/\ search.pc = "done"
     /\ search.via = "search_relevant_documents"
     /\ (~search.embedded \/ search.semantic_hits < search.wanted)) => search.fts_ran

\* C22: no list returned by a search on the store, in any mode, holds the id
\* of a document that is soft-deleted at the time of the search
C22_DeletedNeverReturned ==
    (search.pc = "done" /\ search.via = "store") =>
        \A i \in DOMAIN search.results : RowOf(search.results[i].id).status = "active"

\* a semantic or hybrid search that returned a hit while the vector of a
\* soft-deleted document was in the index
C22_Witness ==
    /\ search.pc = "done" /\ search.via = "store" /\ search.embedded
    /\ search.results # <<>>
    /\ \E i \in DOMAIN document_ids :
          /\ \E j \in DOMAIN documents : documents[j].id = document_ids[i]
          /\ RowOf(document_ids[i]).status = "deleted"

\* the rows that were given a vector, in insertion order
RowsWithVector == SelectSeq(documents, LAMBDA r : r.faiss_index # NoIndex)

\* C23: the index only grows, and ordinal i of the index belongs to the i-th
\* record that was added with a vector: document_ids[i] is the id of the one
\* record whose stored faiss_index is i, whatever the status of the record
C23_IndexAppendOnlyAndAligned ==
    /\ [](/\ Len(index) = Len(document_ids)
          /\ Len(RowsWithVector) = Len(document_ids)
          /\ \A i \in DOMAIN RowsWithVector :
                /\ RowsWithVector[i].faiss_index = i - 1
                /\ document_ids[i] = RowsWithVector[i].id
                /\ index[i] = RowsWithVector[i].id)
    /\ [][IsPrefix(index, index') /\ IsPrefix(document_ids, document_ids')]_vars

C25_MalformedOutputFallsBack ==
    \A t \in Threads :
        (/\ turns[t].pc = "finalize_response"
         /\ turns[t].rag_search_result = "docs"
         /\ turns[t].llm_output \in {"unparseable", "not_object", "missing_fields"}) =>
            /\ turns[t].final_response = "raw_with_listing"
            /\ turns[t].error_message # "llm"
            /\ ~turns[t].raised

\* C26: for each session queue of the event bus, the results of the
\* successive polls of it, one after the other, followed by what is still
\* queued, are exactly the events appended to it, in the order appended and
\* each once; and a poll that has returned left the queue empty and returned
\* nothing for a session without queue
C26_PollsDeliverInOrderOnce ==
    /\ \A h \in Handlers, s \in Sessions :
          bus.polled[h][s] \o session_events[h][s].q = bus.added[h][s]
    /\ bus.last_op.op = "get_pending_events" =>
          session_events[bus.last_op.h][bus.last_op.s].q = <<>>

\* a second poll of a queue returned the event added after the first poll,
\* which had returned an event of another type
C26_Witness ==
    /\ bus.last_op.op = "get_pending_events"
    /\ bus.last_op.events # <<>>
    /\ LET polled == bus.polled[bus.last_op.h][bus.last_op.s]
       IN /\ Len(polled) > Len(bus.last_op.events)
          /\ polled[1] # polled[Len(polled)]

\* C27: a structured-output parse failure never aborts a supervisor
\* invocation: after a plan output that cannot be read as an object with a
\* tasks array the plan of the invocation is the single task made of the raw
\* model text, the task of a delegation output that cannot be read as an
\* object is executed by the supervisor itself, and no such invocation
\* leaves invoke by an exception
C27_ParseFailureDegrades ==
    \A i \in Invocations :
        LET inv == sup.invocation[i]
        IN /\ (/\ inv.pc # "idle"
               /\ inv.plan_output \in
                      {"unparseable", "not_object", "no_tasks_field", "tasks_not_array"}) =>
                  /\ inv.pc # "raised"
                  /\ inv.plan = TaskList(<<Task(i, 0)>>)
           /\ (inv.pc # "idle" /\ inv.delegation_output \in {"unparseable", "not_object"}) =>
                  /\ inv.pc # "raised"
                  /\ inv.how = "self"

\* C30: every supervisor invocation runs one delegate-and-execute iteration
\* per task of its own plan, in plan order: the results it has collected are
\* at every moment the first tasks of its own plan, and the final synthesis
\* receives one result per planned task in that order, also when two
\* invocations run on the same instance
C30_OneIterationPerPlannedTask ==
    \A i \in Invocations :
        LET inv == sup.invocation[i]
        IN /\ IsPrefix(inv.results, inv.plan.items)
           /\ inv.pc \in {"summarize", "returned"} => inv.results = inv.plan.items

\* C28: a tool is executed in a turn only if a response with confirmed=true
\* was submitted for the session of the turn after the turn emitted its
\* confirmation request: the response the wait of the turn returned is
\* confirmed and is none of the responses submitted before the request
C28_OnlyLaterResponseAuthorizes ==
    \A t \in Threads :
        LET tr == turns[t]
        IN (tr.pc = "execute_tool") =>
              /\ tr.confirmation_result.confirmed
              /\ tr.confirmation_result.timestamp > tr.requested_at

\* C29: with the streams of two sessions open on one coordinator, every
\* event a turn emits is appended to the queue of the session of that turn:
\* an add_event call made the way the workflow nodes make it, by a turn of a
\* session whose stream is still open when the call returns, has put the
\* event into the queue of that session, not into another queue and not
\* nowhere
C29_EventsReachOwnSessionQueue ==
    LET a == bus.last_add
    IN (/\ a.h \in Handlers
        /\ a.session_id = NoSession
        /\ a.of \in ({s \in Sessions : session_events[a.h][s].present})) => a.landed = a.of

====
